---------------------------- MODULE Spec2Model ----------------------------
(***************************************************************************)
(* Risk-assessment engine of the KYB onboarding agent:                     *)
(*   core/risk.py              company age, signal normalizer, risk scorer *)
(*   services/sanctions.py     fuzzy sanctions screening                   *)
(*   services/registry_client.py  registry lookup, status normalizer       *)
(*                                                                         *)
(* Python values are modelled as tagged records.  A string is a sequence   *)
(* of one-character strings, so that lower(), title() and strptime() are   *)
(* computed character by character.                                        *)
(***************************************************************************)
EXTENDS Integers, Sequences, FiniteSets, TLC

VARIABLES
    today,           \* datetime.today().date(), as a proleptic Gregorian ordinal
    USE_MOCK,        \* registry_client.USE_MOCK, fixed when the module is imported
    SANCTIONS_LIST,  \* sanctions._SANCTIONS_LIST, loaded once at import
    last             \* the most recent call: [op, arg, ret, ...]

vars == <<today, USE_MOCK, SANCTIONS_LIST, last>>

---------------------------------------------------------------------------
\* Bounds of the model.

\* How many days the clock may advance during a run.
MaxTicks == 2

\* Longest sanctions file (rows) that is loaded.
MaxRows == 2

---------------------------------------------------------------------------
\* Python values.

PyNone == [kind |-> "None", val |-> <<>>]

PyStr(s) == [kind |-> "str", val |-> s]

\* A value that is neither None, nor a string, nor a mapping (a non-empty list).
PyList == [kind |-> "list", val |-> <<>>]

\* Python truthiness of None / str / non-empty list ("if not x").
Truthy(v) ==
    CASE v.kind = "None" -> FALSE
      [] v.kind = "str"  -> Len(v.val) > 0
      [] OTHER           -> TRUE

LowerAlphabet == <<"a","b","c","d","e","f","g","h","i","j","k","l","m","n","o","p","q","r","s","t","u","v","w","x","y","z">>

UpperAlphabet == <<"A","B","C","D","E","F","G","H","I","J","K","L","M","N","O","P","Q","R","S","T","U","V","W","X","Y","Z">>

Digits == <<"0","1","2","3","4","5","6","7","8","9">>

IndexIn(c, alphabet) == CHOOSE i \in 1..Len(alphabet) : alphabet[i] = c

IsUpper(c) == \E i \in 1..Len(UpperAlphabet) : UpperAlphabet[i] = c

IsLower(c) == \E i \in 1..Len(LowerAlphabet) : LowerAlphabet[i] = c

IsCased(c) == IsUpper(c) \/ IsLower(c)

IsDigit(c) == \E i \in 1..Len(Digits) : Digits[i] = c

LowerChar(c) == IF IsUpper(c) THEN LowerAlphabet[IndexIn(c, UpperAlphabet)] ELSE c

UpperChar(c) == IF IsLower(c) THEN UpperAlphabet[IndexIn(c, LowerAlphabet)] ELSE c

\* str.lower()
str_lower(s) == [i \in 1..Len(s) |-> LowerChar(s[i])]

\* str.upper()
str_upper(s) == [i \in 1..Len(s) |-> UpperChar(s[i])]

\* str.title(): a cased character is upper-cased when it follows an uncased
\* character (or starts the string) and lower-cased otherwise.
str_title(s) ==
    [i \in 1..Len(s) |->
        IF i = 1 \/ ~IsCased(s[i - 1]) THEN UpperChar(s[i]) ELSE LowerChar(s[i])]

---------------------------------------------------------------------------
\* Calendar arithmetic of datetime.date.

IsLeap(y) == (y % 4 = 0) /\ ((y % 100 # 0) \/ (y % 400 = 0))

DaysInMonth(y, m) ==
    CASE m \in {1, 3, 5, 7, 8, 10, 12} -> 31
      [] m \in {4, 6, 9, 11}           -> 30
      [] OTHER                         -> IF IsLeap(y) THEN 29 ELSE 28

RECURSIVE DaysBeforeMonth(_, _)
DaysBeforeMonth(y, m) ==
    IF m = 1 THEN 0 ELSE DaysBeforeMonth(y, m - 1) + DaysInMonth(y, m - 1)

DaysBeforeYear(y) ==
    (y - 1) * 365 + ((y - 1) \div 4) - ((y - 1) \div 100) + ((y - 1) \div 400)

\* date.toordinal()
ToOrdinal(y, m, d) == DaysBeforeYear(y) + DaysBeforeMonth(y, m) + d

RECURSIVE ToInt(_)
ToInt(s) ==
    IF Len(s) = 0 THEN 0
    ELSE 10 * ToInt(SubSeq(s, 1, Len(s) - 1)) + (IndexIn(s[Len(s)], Digits) - 1)

AllDigits(s) == \A i \in 1..Len(s) : IsDigit(s[i])

\* datetime.strptime(s, "%Y-%m-%d").date(): [ok |-> FALSE, ...] is ValueError.
\* %Y takes exactly four digits, %m and %d one or two; the date must exist.
strptime(s) ==
    LET dashes == {i \in 1..Len(s) : s[i] = "-"}
        bad    == [ok |-> FALSE, ordinal |-> 0]
    IN  IF Cardinality(dashes) # 2 THEN bad
        ELSE
          LET p1 == CHOOSE i \in dashes : \A j \in dashes : i <= j
              p2 == CHOOSE i \in dashes : \A j \in dashes : j <= i
              Y  == SubSeq(s, 1, p1 - 1)
              M  == SubSeq(s, p1 + 1, p2 - 1)
              D  == SubSeq(s, p2 + 1, Len(s))
          IN  IF ~(AllDigits(Y) /\ AllDigits(M) /\ AllDigits(D)
                   /\ Len(Y) = 4 /\ Len(M) \in 1..2 /\ Len(D) \in 1..2)
              THEN bad
              ELSE
                LET y == ToInt(Y)
                    m == ToInt(M)
                    d == ToInt(D)
                IN  IF y >= 1 /\ m \in 1..12 /\ d >= 1 /\ d <= DaysInMonth(y, m)
                    THEN [ok |-> TRUE, ordinal |-> ToOrdinal(y, m, d)]
                    ELSE bad

\* The day the process starts on: 2025-11-08.
Today0 == ToOrdinal(2025, 11, 8)

---------------------------------------------------------------------------
\* core/risk.py

\* A variant of IntOfYears that rounds down (math.floor) instead of toward zero.
IntOfYears_floor(days) == (4 * days) \div 1461

\* int(x) for x = days / 365.25 = 4 * days / 1461: Python's int() drops the
\* fraction, i.e. rounds toward zero.  The float quotient is never within
\* rounding error of a whole number unless it is one, so exact arithmetic
\* gives the same integer.
IntOfYears(days) ==
    IF days >= 0 THEN (4 * days) \div 1461 ELSE -((4 * (-days)) \div 1461)

\* _calculate_company_age(incorporation_date), reading the clock.
calculate_company_age(incorporation_date) ==
    IF ~Truthy(incorporation_date) THEN 0
    ELSE IF incorporation_date.kind # "str" THEN 0      \* TypeError -> except Exception
    ELSE LET incorp_dt == strptime(incorporation_date.val)
         IN  IF ~incorp_dt.ok THEN 0                    \* except ValueError
             ELSE IntOfYears(today - incorp_dt.ordinal)

\* A verification sub-section as found in the state.  kind "absent" is a
\* missing key; "dict" is a mapping whose keys 'match', 'status' and
\* 'incorporation_date' may be missing ("absent" / None).
EmptyDict ==
    [kind |-> "dict", match |-> "absent", status |-> PyNone, incorporation_date |-> PyNone]

NotADict(k) ==
    [kind |-> k, match |-> "absent", status |-> PyNone, incorporation_date |-> PyNone]

\* d.get(key, {}) on a mapping whose entry is `entry`.
GetOrEmpty(entry) == IF entry.kind = "absent" THEN EmptyDict ELSE entry

NoSignals ==
    [registry_match |-> FALSE, is_active |-> FALSE, age_gte_3 |-> FALSE,
     sanctions_match |-> FALSE, address_mismatch |-> FALSE,
     first_time_bank |-> FALSE, company_age_actual |-> 0]

\* _get_normalized_signals(state): [exc, signals].  Calling .get on a value
\* that is no mapping (None, a list) raises AttributeError.
get_normalized_signals(state) ==
    LET v == state.verifications
        raised == [exc |-> "AttributeError", signals |-> NoSignals]
    IN  IF v.kind \in {"None", "list"} THEN raised
        ELSE
          LET registry_data  == IF v.kind = "absent" THEN EmptyDict ELSE GetOrEmpty(v.registry)
              sanctions_data == IF v.kind = "absent" THEN EmptyDict ELSE GetOrEmpty(v.sanctions)
          IN  IF registry_data.kind # "dict" \/ sanctions_data.kind # "dict" THEN raised
              ELSE
                LET company_age == calculate_company_age(registry_data.incorporation_date)
                IN  [exc |-> "none",
                     signals |->
                       [registry_match     |-> registry_data.match = "True",
                        is_active          |-> registry_data.status = PyStr(<<"a","c","t","i","v","e">>),
                        age_gte_3          |-> company_age >= 3,
                        sanctions_match    |-> sanctions_data.match = "True",
                        address_mismatch   |-> FALSE,
                        first_time_bank    |-> FALSE,
                        company_age_actual |-> company_age]]

\* A variant of _risk_label whose medium tier starts above 40.
risk_label_strict(score) ==
    IF score >= 70 THEN "high" ELSE IF score > 40 THEN "medium" ELSE "low"

\* _risk_label(score)
risk_label(score) ==
    IF score >= 70 THEN "high" ELSE IF score >= 40 THEN "medium" ELSE "low"

Max(a, b) == IF a >= b THEN a ELSE b

Min(a, b) == IF a <= b THEN a ELSE b

\* The additive rules of compute_risk, in their order.
AdditiveBase(signals) ==
    LET b1 == IF signals.registry_match THEN 30 ELSE 0
        b2 == IF signals.is_active THEN b1 + 20 ELSE b1
        b3 == IF signals.age_gte_3 THEN b2 + 15 ELSE b2
        b4 == IF signals.address_mismatch THEN b3 - 10 ELSE b3
        b5 == IF signals.first_time_bank THEN b4 - 10 ELSE b4
    IN  b5

\* A variant of the override that caps at 90 (min for max).
SanctionsOverride_min(signals, base) ==
    IF signals.sanctions_match THEN Min(base, 90) ELSE base

\* The sanctions override of compute_risk.
SanctionsOverride(signals, base) ==
    IF signals.sanctions_match THEN Max(base, 90) ELSE base

\* A variant of the clamp without the lower bound.
ClampScore_upper(base) == Min(100, base)

\* The clamp of compute_risk.
ClampScore(base) == Min(100, Max(0, base))

\* Steps 2-4 of compute_risk: the rule set applied to a SignalSet.
RiskScorer(signals) ==
    LET score == ClampScore(SanctionsOverride(signals, AdditiveBase(signals)))
    IN  [score |-> score, label |-> risk_label(score)]

\* compute_risk(state): [outcome, signals, score, label]
compute_risk(state) ==
    LET sig == get_normalized_signals(state)
    IN  IF sig.exc # "none"
        THEN [outcome |-> "raised", signals |-> NoSignals, score |-> 0, label |-> "none"]
        ELSE LET r == RiskScorer(sig.signals)
             IN  [outcome |-> "returned", signals |-> sig.signals,
                  score |-> r.score, label |-> r.label]

---------------------------------------------------------------------------
\* services/sanctions.py

MATCH_THRESHOLD == 86

\* pandas' missing value (an empty cell of the CSV file).
NaN == [kind |-> "NaN", val |-> <<>>]

\* _load_sanctions_data(file_path): the lower-cased names of the 'name'
\* column in file order, rows without a name dropped; [] when the file is
\* missing, unreadable or has no 'name' column.
RECURSIVE load_names(_)
load_names(rows) ==
    IF Len(rows) = 0 THEN <<>>
    ELSE LET rest == load_names(Tail(rows))
         IN  IF Head(rows).kind = "str"
             THEN <<str_lower(Head(rows).val)>> \o rest
             ELSE rest

load_sanctions_data(file) ==
    IF file.kind # "csv" THEN <<>> ELSE load_names(file.rows)

\* int(round(score)) of a score given in tenths: round half to even.
py_round(score10) ==
    LET q == score10 \div 10
        r == score10 % 10
    IN  IF r < 5 THEN q
        ELSE IF r > 5 THEN q + 1
        ELSE IF q % 2 = 0 THEN q ELSE q + 1

\* A variant of max() that keeps the last of several maximal items.
RECURSIVE py_max_last(_, _, _, _)
py_max_last(list, key, i, best) ==
    IF i > Len(list) THEN best
    ELSE py_max_last(list, key, i + 1,
                     IF key[list[i]] >= key[list[best]] THEN i ELSE best)

\* max(list, key=...): the index of the item max() returns, scanning from
\* item i with `best` the index of the best item so far.  An item replaces
\* the best one only when its key is strictly greater.
RECURSIVE py_max(_, _, _, _)
py_max(list, key, i, best) ==
    IF i > Len(list) THEN best
    ELSE py_max(list, key, i + 1,
                IF key[list[i]] > key[list[best]] THEN i ELSE best)

\* A variant of the threshold test that needs more than the threshold.
is_match_strict(int_score) == int_score > MATCH_THRESHOLD

\* is_match = int_score >= MATCH_THRESHOLD
is_match(int_score) == int_score >= MATCH_THRESHOLD

NoMatchRecord(path) ==
    [match |-> FALSE, matched_name |-> PyNone, score |-> 0, path |-> path, best |-> 0]

\* check_sanctions(name).  partial_ratio[x] is what fuzz.partial_ratio(
\* name_lower, x) returns, in tenths; scorer_fails is the scorer raising.
\* path and best (the index of best_match_name) are what the call logs.
check_sanctions(name, partial_ratio, scorer_fails) ==
    IF Len(SANCTIONS_LIST) = 0 THEN NoMatchRecord("empty_list")
    ELSE IF ~Truthy(name) THEN NoMatchRecord("empty_name")
    ELSE IF scorer_fails THEN NoMatchRecord("scoring_failed")
    ELSE
      LET best      == py_max(SANCTIONS_LIST, partial_ratio, 2, 1)
          int_score == py_round(partial_ratio[SANCTIONS_LIST[best]])
      IN  [match        |-> is_match(int_score),
           matched_name |-> IF is_match(int_score)
                            THEN PyStr(str_title(SANCTIONS_LIST[best]))
                            ELSE PyNone,
           score        |-> int_score,
           path         |-> "scanned",
           best         |-> best]

---------------------------------------------------------------------------
\* services/registry_client.py

S_active == <<"a","c","t","i","v","e">>

S_inactive == <<"i","n","a","c","t","i","v","e">>

S_unknown == <<"u","n","k","n","o","w","n">>

S_other == <<"o","t","h","e","r">>

S_company_is_active == <<"c","o","m","p","a","n","y"," ","i","s"," ","a","c","t","i","v","e">>

S_in_liquidation == <<"i","n"," ","l","i","q","u","i","d","a","t","i","o","n">>

S_dissolved == <<"d","i","s","s","o","l","v","e","d">>

S_converted == <<"c","o","n","v","e","r","t","e","d"," ","t","o"," ","a","n","o","t","h","e","r"," ","f","o","r","m">>

S_closed == <<"c","l","o","s","e","d">>

\* A variant of _normalize_status that compares without lower-casing.
normalize_status_cased(status_str) ==
    IF ~Truthy(status_str) THEN [exc |-> "none", label |-> S_unknown]
    ELSE IF status_str.kind # "str" THEN [exc |-> "AttributeError", label |-> <<>>]
    ELSE
      LET s == status_str.val
      IN  [exc |-> "none",
           label |->
             IF s \in {S_active, S_company_is_active} THEN S_active
             ELSE IF s \in {S_inactive, S_in_liquidation} THEN S_inactive
             ELSE IF s \in {S_dissolved, S_converted, S_closed} THEN S_dissolved
             ELSE S_other]

\* _normalize_status(status_str): [exc, label].  A truthy value that is no
\* string has no lower(): AttributeError.
normalize_status(status_str) ==
    IF ~Truthy(status_str) THEN [exc |-> "none", label |-> S_unknown]
    ELSE IF status_str.kind # "str" THEN [exc |-> "AttributeError", label |-> <<>>]
    ELSE
      LET s == str_lower(status_str.val)
      IN  [exc |-> "none",
           label |->
             IF s \in {S_active, S_company_is_active} THEN S_active
             ELSE IF s \in {S_inactive, S_in_liquidation} THEN S_inactive
             ELSE IF s \in {S_dissolved, S_converted, S_closed} THEN S_dissolved
             ELSE S_other]

\* A JSON number.
PyInt(digits) == [kind |-> "int", val |-> digits]

\* _get_no_match_response(): RegistryResponse(match=False).model_dump()
get_no_match_response ==
    [match |-> FALSE, company_number |-> PyNone, jurisdiction |-> PyNone,
     status |-> PyNone, incorporation_date |-> PyNone]

\* _get_mock_response(query)
get_mock_response ==
    [match |-> TRUE,
     company_number |-> PyStr(<<"0","8","0","0","3","2","7","7">>),
     jurisdiction |-> PyStr(<<"g","b">>),
     status |-> PyStr(S_active),
     incorporation_date |-> PyStr(<<"2","0","1","2","-","0","3","-","2","1">>)]

Returned(record) == [outcome |-> "returned", exc |-> "none", record |-> record]

Raised(exc) == [outcome |-> "raised", exc |-> exc, record |-> get_no_match_response]

\* An Optional[str] field of RegistryResponse under coerce_numbers_to_str:
\* None and strings pass, numbers become strings, anything else is rejected.
FieldValid(v) == v.kind \in {"None", "str", "int"}

FieldValue(v) == IF v.kind = "int" THEN PyStr(v.val) ELSE v

\* _get_live_response(query) against one behaviour of the registry source.
\* requests' JSONDecodeError is a RequestException (requests >= 2.27), so an
\* undecodable body is caught like a transport failure.
get_live_response(response) ==
    IF response.transport # "ok" THEN Returned(get_no_match_response)
    ELSE IF response.status_code # 200 THEN Returned(get_no_match_response)
    ELSE IF response.body.kind = "undecodable" THEN Returned(get_no_match_response)
    ELSE IF response.body.kind # "dict" THEN Raised("AttributeError")
    ELSE
      LET data == response.body
      IN  IF data.results \in {"absent", "None", "empty_dict"} \/ data.total_count \in {"absent", "0"}
          THEN Returned(get_no_match_response)
          ELSE IF data.results = "list" THEN Raised("TypeError")
          ELSE IF data.companies = "absent" THEN Raised("KeyError")
          ELSE IF data.companies = "empty" THEN Raised("IndexError")
          ELSE IF data.companies = "no_company_key" THEN Raised("KeyError")
          ELSE IF data.companies = "company_none" THEN Raised("AttributeError")
          ELSE
            LET best_match == data.company
                status     == normalize_status(best_match.current_status)
            IN  IF status.exc # "none" THEN Raised(status.exc)
                ELSE IF ~(FieldValid(best_match.company_number)
                          /\ FieldValid(best_match.jurisdiction_code)
                          /\ FieldValid(best_match.incorporation_date))
                THEN Raised("ValidationError")
                ELSE Returned(
                       [match |-> TRUE,
                        company_number |-> FieldValue(best_match.company_number),
                        jurisdiction |-> FieldValue(best_match.jurisdiction_code),
                        status |-> PyStr(status.label),
                        incorporation_date |-> FieldValue(best_match.incorporation_date)])

\* search_registry(query)
search_registry(query, response) ==
    IF ~Truthy(query) THEN Returned(get_no_match_response)
    ELSE IF USE_MOCK THEN Returned(get_mock_response)
    ELSE get_live_response(response)

---------------------------------------------------------------------------
\* Inputs of the risk engine.

D_2022_11_08 == <<"2","0","2","2","-","1","1","-","0","8">>

D_2022_11_09 == <<"2","0","2","2","-","1","1","-","0","9">>

D_2022_11_10 == <<"2","0","2","2","-","1","1","-","1","0">>

D_2015_11_08 == <<"2","0","1","5","-","1","1","-","0","8">>

D_2025_11_08 == <<"2","0","2","5","-","1","1","-","0","8">>

D_2025_11_09 == <<"2","0","2","5","-","1","1","-","0","9">>

D_2026_11_08 == <<"2","0","2","6","-","1","1","-","0","8">>

D_2026_11_11 == <<"2","0","2","6","-","1","1","-","1","1">>

D_2030_01_01 == <<"2","0","3","0","-","0","1","-","0","1">>

D_2012_03_21 == <<"2","0","1","2","-","0","3","-","2","1">>

D_2012_3_1 == <<"2","0","1","2","-","3","-","1">>

D_2024_02_29 == <<"2","0","2","4","-","0","2","-","2","9">>

D_2023_02_29 == <<"2","0","2","3","-","0","2","-","2","9">>

D_2025_13_01 == <<"2","0","2","5","-","1","3","-","0","1">>

D_slashes == <<"2","1","/","0","3","/","2","0","1","2">>

D_year0 == <<"0","0","0","0","-","0","1","-","0","1">>

D_short == <<"2","0","1","2","-","0","3">>

ParsableDates ==
    {D_2022_11_08, D_2022_11_09, D_2022_11_10, D_2015_11_08, D_2025_11_08,
     D_2025_11_09, D_2026_11_08, D_2026_11_11, D_2030_01_01, D_2012_03_21,
     D_2012_3_1, D_2024_02_29}

UnparsableDates == {D_2023_02_29, D_2025_13_01, D_slashes, D_year0, D_short}

\* Arguments of _calculate_company_age.
AgeInputs ==
    {PyNone, PyStr(<<>>), PyList}
      \cup {PyStr(d) : d \in ParsableDates \cup UnparsableDates}

MatchValues == {"absent", "True", "False"}

\* Registry sub-sections of the state.
RegistryInputs ==
    {NotADict("absent"), NotADict("None"), NotADict("list")}
      \cup [kind : {"dict"},
            match : MatchValues,
            status : {PyNone, PyStr(S_active), PyStr(S_inactive)},
            incorporation_date : {PyNone, PyStr(D_slashes), PyStr(D_2022_11_09),
                                  PyStr(D_2015_11_08), PyStr(D_2026_11_11)}]

\* Sanctions sub-sections of the state.
SanctionsInputs ==
    {NotADict("absent"), NotADict("None"), NotADict("list")}
      \cup [kind : {"dict"}, match : MatchValues,
            status : {PyNone}, incorporation_date : {PyNone}]

\* AgentState dictionaries handed to compute_risk.
StateInputs ==
    [verifications :
        {[kind |-> k, registry |-> NotADict("absent"), sanctions |-> NotADict("absent")]
            : k \in {"absent", "None", "list"}}
        \cup [kind : {"dict"}, registry : RegistryInputs, sanctions : SanctionsInputs]]

\* SignalSets handed to the rule set.
SignalInputs ==
    [registry_match : BOOLEAN, is_active : BOOLEAN, age_gte_3 : BOOLEAN,
     sanctions_match : BOOLEAN, address_mismatch : BOOLEAN,
     first_time_bank : BOOLEAN, company_age_actual : {0}]

NoCall == [op |-> "none"]

---------------------------------------------------------------------------
\* Actions of the risk engine.

\* A call of compute_risk(state).
ComputeRisk ==
    \E state \in StateInputs :
        /\ last' = [op |-> "compute_risk", arg |-> state, day |-> today,
                    ret |-> compute_risk(state)]
        /\ UNCHANGED <<today, USE_MOCK, SANCTIONS_LIST>>

\* The rule set of compute_risk applied to a SignalSet.
ScoreSignals ==
    \E signals \in SignalInputs :
        /\ last' = [op |-> "risk_scorer", arg |-> signals, day |-> today,
                    ret |-> [outcome |-> "returned", signals |-> signals,
                             score |-> RiskScorer(signals).score,
                             label |-> RiskScorer(signals).label]]
        /\ UNCHANGED <<today, USE_MOCK, SANCTIONS_LIST>>

\* A call of _calculate_company_age(incorporation_date).
CalculateCompanyAge ==
    \E incorporation_date \in AgeInputs :
        /\ last' = [op |-> "calculate_company_age", arg |-> incorporation_date,
                    day |-> today, ret |-> calculate_company_age(incorporation_date)]
        /\ UNCHANGED <<today, USE_MOCK, SANCTIONS_LIST>>

\* Midnight passes: datetime.today() moves to the next day.
AdvanceDay ==
    /\ today < Today0 + MaxTicks
    /\ today' = today + 1
    /\ UNCHANGED <<USE_MOCK, SANCTIONS_LIST, last>>

InitRisk ==
    /\ today = Today0
    /\ USE_MOCK = FALSE
    /\ SANCTIONS_LIST = <<>>
    /\ last = NoCall

NextRisk == ComputeRisk \/ ScoreSignals \/ CalculateCompanyAge \/ AdvanceDay

SpecRisk == InitRisk /\ [][NextRisk]_vars

---------------------------------------------------------------------------
\* Properties of the risk engine (checked under SpecRisk).

Scored == last.op \in {"compute_risk", "risk_scorer"} /\ last.ret.outcome = "returned"

\* The registry / sanctions sub-section compute_risk was given.
ArgRegistry == last.arg.verifications.registry

ArgSanctions == last.arg.verifications.sanctions

ChannelUsable(section) == section.kind \in {"absent", "dict"}

\* C1 (as claimed): compute_risk never fails; whatever the 'verifications'
\* section and its 'registry' / 'sanctions' sub-sections are (absent, null,
\* not a mapping), the call returns a result, and an unusable channel
\* contributes no signal.
C1_ComputeRiskNeverFails ==
    last.op = "compute_risk" =>
        /\ last.ret.outcome = "returned"
        /\ last.ret.label \in {"low", "medium", "high"}
        /\ (last.arg.verifications.kind # "dict" \/ ~ChannelUsable(ArgRegistry)) =>
              /\ ~last.ret.signals.registry_match
              /\ ~last.ret.signals.is_active
              /\ ~last.ret.signals.age_gte_3
        /\ (last.arg.verifications.kind # "dict" \/ ~ChannelUsable(ArgSanctions)) =>
              ~last.ret.signals.sanctions_match

\* C2: whenever the sanctions signal is true the score is at least 90 and
\* the label is "high", whatever the other signals are.
C2_SanctionsFloor ==
    (Scored /\ last.ret.signals.sanctions_match) =>
        (last.ret.score >= 90 /\ last.ret.label = "high")

\* Scenario B: matched, active, ten years old, sanctioned: the additive base
\* of 65 is raised to 90.
C2_Witness ==
    /\ last.op = "compute_risk"
    /\ last.ret.outcome = "returned"
    /\ last.ret.signals.sanctions_match
    /\ last.ret.signals.registry_match
    /\ last.ret.signals.is_active
    /\ last.ret.signals.age_gte_3
    /\ last.ret.score = 90

\* C3: the score is an integer in [0,100] for every combination of signals.
C3_ScoreInRange ==
    Scored => (last.ret.score \in Int /\ last.ret.score >= 0 /\ last.ret.score <= 100)

\* Only penalties apply: the base of -20 is clamped to 0.
C3_Witness ==
    /\ last.op = "risk_scorer"
    /\ last.arg.address_mismatch
    /\ last.arg.first_time_bank
    /\ ~last.arg.registry_match
    /\ ~last.arg.sanctions_match
    /\ last.ret.score = 0

Weight(b, w) == IF b THEN w ELSE 0

\* The reference rule set of the claim, in closed form.
ReferenceScore(s) ==
    LET base == Weight(s.registry_match, 30) + Weight(s.is_active, 20)
                  + Weight(s.age_gte_3, 15) - Weight(s.address_mismatch, 10)
                  - Weight(s.first_time_bank, 10)
        floored == IF s.sanctions_match /\ base < 90 THEN 90 ELSE base
    IN  IF floored < 0 THEN 0 ELSE IF floored > 100 THEN 100 ELSE floored

ScenarioRegistry ==
    [kind |-> "dict", match |-> "True", status |-> PyStr(S_active),
     incorporation_date |-> PyStr(D_2015_11_08)]

ScenarioState(sanctioned) ==
    [verifications |->
        [kind |-> "dict", registry |-> ScenarioRegistry,
         sanctions |-> [kind |-> "dict", match |-> sanctioned,
                        status |-> PyNone, incorporation_date |-> PyNone]]]

\* C4: the result equals the reference rule set (30/20/15/-10/-10, raised to
\* 90 on a sanctions match, clamped to [0,100]); high iff score >= 70, medium
\* iff 40 <= score < 70, low otherwise; matched + active + ten years old gives
\* 65/medium without sanctions and 90/high with; no rule triggered gives 0/low.
C4_ReferenceRules ==
    /\ Scored =>
          /\ last.ret.score = ReferenceScore(last.ret.signals)
          /\ last.ret.label \in {"low", "medium", "high"}
          /\ (last.ret.label = "high") <=> (last.ret.score >= 70)
          /\ (last.ret.label = "medium") <=> (last.ret.score >= 40 /\ last.ret.score < 70)
          /\ (last.ret.signals = NoSignals) => (last.ret.score = 0 /\ last.ret.label = "low")
    /\ (last.op = "compute_risk" /\ last.arg = ScenarioState("False")) =>
          (last.ret.outcome = "returned" /\ last.ret.score = 65 /\ last.ret.label = "medium")
    /\ (last.op = "compute_risk" /\ last.arg = ScenarioState("True")) =>
          (last.ret.outcome = "returned" /\ last.ret.score = 90 /\ last.ret.label = "high")

\* Scenario A, scored 65 / medium.
C4_Witness ==
    /\ last.op = "compute_risk"
    /\ last.arg = ScenarioState("False")
    /\ last.ret.score = 65
    /\ last.ret.label = "medium"

IsParsable(date) == date.kind = "str" /\ date.val \in ParsableDates

\* today minus the date, on the day of the call.
ElapsedDays(date) == last.day - strptime(date.val).ordinal

\* C6 (as claimed): for a parsable date the age is floor(elapsed_days /
\* 365.25), negative for every date in the future; missing or unparsable
\* dates give 0.
C6_AgeIsFloor ==
    last.op = "calculate_company_age" =>
        IF IsParsable(last.arg)
        THEN /\ 1461 * last.ret <= 4 * ElapsedDays(last.arg)
             /\ 4 * ElapsedDays(last.arg) < 1461 * (last.ret + 1)
             /\ (ElapsedDays(last.arg) < 0) => (last.ret < 0)
        ELSE last.ret = 0

\* The age is elapsed_days / 365.25 rounded toward zero.
TruncatedYears(elapsed, age) ==
    IF elapsed >= 0
    THEN age >= 0 /\ 1461 * age <= 4 * elapsed /\ 4 * elapsed < 1461 * (age + 1)
    ELSE age <= 0 /\ 1461 * (-age) <= 4 * (-elapsed) /\ 4 * (-elapsed) < 1461 * (1 - age)

\* C6 (amended): for a parsable date the age is elapsed_days / 365.25 with
\* the fraction dropped (rounded toward zero); for a date in the future the
\* age is zero or negative, negative exactly from 366 days ahead, and ageGte3
\* is false; missing or unparsable dates give 0.
C6_AgeTruncates ==
    /\ last.op = "calculate_company_age" =>
          IF IsParsable(last.arg)
          THEN /\ TruncatedYears(ElapsedDays(last.arg), last.ret)
               /\ (ElapsedDays(last.arg) < 0) =>
                     (last.ret <= 0 /\ (last.ret < 0 <=> ElapsedDays(last.arg) <= -366))
          ELSE last.ret = 0
    /\ (last.op = "compute_risk" /\ last.ret.outcome = "returned"
          /\ last.arg.verifications.kind = "dict" /\ ArgRegistry.kind = "dict") =>
          IF IsParsable(ArgRegistry.incorporation_date)
          THEN /\ TruncatedYears(ElapsedDays(ArgRegistry.incorporation_date),
                                 last.ret.signals.company_age_actual)
               /\ (ElapsedDays(ArgRegistry.incorporation_date) < 0) =>
                     ~last.ret.signals.age_gte_3
          ELSE last.ret.signals.company_age_actual = 0

\* A date less than a year ahead: the age is 0, where rounding down gives -1.
C6_Witness ==
    /\ last.op = "calculate_company_age"
    /\ IsParsable(last.arg)
    /\ ElapsedDays(last.arg) < 0
    /\ last.ret = 0

\* C8 (as claimed): the signal normalizer is a function of the registry and
\* sanctions records alone: two calls of compute_risk on the same state give
\* the same signals, score and label, whenever they are made.
C8_SameInputSameResult ==
    [][(last.op = "compute_risk" /\ last'.op = "compute_risk" /\ last'.arg = last.arg)
          => (last'.ret = last.ret)]_vars

---------------------------------------------------------------------------
\* Inputs of the sanctions matcher.

S_Vladimir_Putin == <<"V","l","a","d","i","m","i","r"," ","P","u","t","i","n">>

S_ACME_LTD == <<"A","C","M","E"," ","L","T","D">>

S_oneil_co == <<"o","'","n","e","i","l"," ","c","o">>

S_Vladimir_Putin_Holdings == <<"V","l","a","d","i","m","i","r"," ","P","u","t","i","n"," ","H","o","l","d","i","n","g","s">>

\* Cells of the 'name' column.
RowValues == {NaN, PyStr(S_Vladimir_Putin), PyStr(S_ACME_LTD), PyStr(S_oneil_co)}

RowSeqs == UNION {[1..n -> RowValues] : n \in 0..MaxRows}

\* What data/sanctions.csv can be when the module is imported.
CsvFiles ==
    {[kind |-> "missing", rows |-> <<>>], [kind |-> "no_name_column", rows |-> <<>>]}
      \cup [kind : {"csv"}, rows : RowSeqs]

\* Candidate names handed to check_sanctions.
NameInputs == {PyNone, PyStr(<<>>), PyStr(S_Vladimir_Putin_Holdings)}

\* Similarity scores in tenths: 85.4, 85.5 and 86.5 straddle the threshold
\* and the two halves round to the same even number.
ScoreSet == {0, 854, 855, 865, 1000}

ListedNames == {SANCTIONS_LIST[i] : i \in 1..Len(SANCTIONS_LIST)}

---------------------------------------------------------------------------
\* Actions of the sanctions matcher.

\* A call of check_sanctions(name) whose scan completes (or is skipped).
CheckSanctions ==
    \E name \in NameInputs, partial_ratio \in [ListedNames -> ScoreSet] :
        /\ last' = [op |-> "check_sanctions", arg |-> name,
                    partial_ratio |-> partial_ratio,
                    ret |-> check_sanctions(name, partial_ratio, FALSE)]
        /\ UNCHANGED <<today, USE_MOCK, SANCTIONS_LIST>>

\* A call of check_sanctions(name) during which the scorer raises.
CheckSanctionsScorerFails ==
    \E name \in NameInputs :
        /\ last' = [op |-> "check_sanctions", arg |-> name,
                    partial_ratio |-> [n \in ListedNames |-> 0],
                    ret |-> check_sanctions(name, [n \in ListedNames |-> 0], TRUE)]
        /\ UNCHANGED <<today, USE_MOCK, SANCTIONS_LIST>>

InitSanctions ==
    /\ today = Today0
    /\ USE_MOCK = FALSE
    /\ \E file \in CsvFiles : SANCTIONS_LIST = load_sanctions_data(file)
    /\ last = NoCall

NextSanctions == CheckSanctions \/ CheckSanctionsScorerFails

SpecSanctions == InitSanctions /\ [][NextSanctions]_vars

---------------------------------------------------------------------------
\* Properties of the sanctions matcher (checked under SpecSanctions).

Screened == last.op = "check_sanctions"

\* Index i holds a reference name of maximal score, and no earlier one does.
FirstMaximal(i) ==
    /\ i \in 1..Len(SANCTIONS_LIST)
    /\ \A j \in 1..Len(SANCTIONS_LIST) :
          last.partial_ratio[SANCTIONS_LIST[j]] <= last.partial_ratio[SANCTIONS_LIST[i]]
    /\ \A j \in 1..(i - 1) :
          last.partial_ratio[SANCTIONS_LIST[j]] < last.partial_ratio[SANCTIONS_LIST[i]]

\* n is score10 / 10 rounded to the nearest integer, halves to the even one.
RoundedTo(score10, n) ==
    /\ 10 * n - score10 <= 5
    /\ score10 - 10 * n <= 5
    /\ (10 * n - score10 \in {5, -5}) => (n % 2 = 0)

\* The display form of each reference name of the model.
TitleCased(listed) ==
    CASE listed = str_lower(S_Vladimir_Putin) -> S_Vladimir_Putin
      [] listed = str_lower(S_ACME_LTD) -> <<"A","c","m","e"," ","L","t","d">>
      [] listed = str_lower(S_oneil_co) -> <<"O","'","N","e","i","l"," ","C","o">>

\* C7: every record check_sanctions returns has match iff score >= 86,
\* matched_name non-null iff match, and score in [0,100]; on a match
\* matched_name is the winning reference name in title case; without a match
\* on the scan path the score is still the best observed score.
C7_RecordInvariant ==
    Screened =>
        /\ last.ret.match <=> (last.ret.score >= 86)
        /\ (last.ret.matched_name # PyNone) <=> last.ret.match
        /\ last.ret.score \in 0..100
        /\ last.ret.match =>
              \E i \in 1..Len(SANCTIONS_LIST) :
                  /\ FirstMaximal(i)
                  /\ last.ret.matched_name = PyStr(TitleCased(SANCTIONS_LIST[i]))
        /\ (last.ret.path = "scanned" /\ ~last.ret.match) =>
              \E i \in 1..Len(SANCTIONS_LIST) :
                  /\ FirstMaximal(i)
                  /\ RoundedTo(last.partial_ratio[SANCTIONS_LIST[i]], last.ret.score)
        /\ (last.ret.path # "scanned") =>
              (~last.ret.match /\ last.ret.score = 0)
        /\ (Len(SANCTIONS_LIST) = 0 \/ last.arg \in {PyNone, PyStr(<<>>)}) =>
              (last.ret.path # "scanned")

\* "Vladimir Putin Holdings" matches the listed "vladimir putin" at 85.5,
\* reported as 86 and "Vladimir Putin".
C7_Witness ==
    /\ Screened
    /\ last.arg = PyStr(S_Vladimir_Putin_Holdings)
    /\ last.ret.match
    /\ last.ret.score = 86
    /\ last.ret.matched_name = PyStr(S_Vladimir_Putin)
    /\ last.partial_ratio[str_lower(S_Vladimir_Putin)] = 855

\* C9: on a non-empty list and a non-empty name the reference name of
\* maximal score is selected, the first one in list order when several share
\* the maximum, and the reported score is that name's rounded score.
C9_FirstMaximalSelected ==
    (Screened /\ Len(SANCTIONS_LIST) > 0 /\ last.arg \notin {PyNone, PyStr(<<>>)}
       /\ last.ret.path # "scoring_failed") =>
        /\ last.ret.path = "scanned"
        /\ FirstMaximal(last.ret.best)
        /\ RoundedTo(last.partial_ratio[SANCTIONS_LIST[last.ret.best]], last.ret.score)

\* Two different reference names share the maximum; the first is selected.
C9_Witness ==
    /\ Screened
    /\ last.ret.path = "scanned"
    /\ Len(SANCTIONS_LIST) >= 2
    /\ SANCTIONS_LIST[1] # SANCTIONS_LIST[2]
    /\ last.partial_ratio[SANCTIONS_LIST[1]] = last.partial_ratio[SANCTIONS_LIST[2]]
    /\ last.partial_ratio[SANCTIONS_LIST[1]] > 0
    /\ last.ret.best = 1

---------------------------------------------------------------------------
\* Inputs of the registry client.

S_registered == <<"r","e","g","i","s","t","e","r","e","d">>

S_activ == <<"a","c","t","i","v">>

S_active_padded == <<" ","a","c","t","i","v","e">>

S_Acme_Ltd == <<"A","c","m","e"," ","L","t","d">>

Synonyms ==
    {S_active, S_company_is_active, S_inactive, S_in_liquidation,
     S_dissolved, S_converted, S_closed}

\* Every second character upper-cased.
Alternating(s) == [i \in 1..Len(s) |-> IF i % 2 = 0 THEN UpperChar(s[i]) ELSE s[i]]

\* Arguments of _normalize_status: absent, empty, the synonyms in several
\* spellings, and strings that only resemble them.
StatusInputs ==
    {PyNone, PyStr(<<>>), PyStr(S_registered), PyStr(S_activ), PyStr(S_active_padded),
     PyStr(str_upper(S_registered)), PyStr(S_unknown), PyStr(S_other)}
      \cup {PyStr(s) : s \in Synonyms}
      \cup {PyStr(str_upper(s)) : s \in Synonyms}
      \cup {PyStr(str_title(s)) : s \in Synonyms}
      \cup {PyStr(Alternating(s)) : s \in Synonyms}

\* The 'company' object of the first search result.
CompanyInputs ==
    [company_number : {PyNone, PyStr(<<"0","8","0","0","3","2","7","7">>),
                       PyInt(<<"8","0","0","3","2","7","7">>), PyList},
     jurisdiction_code : {PyNone, PyStr(<<"g","b">>)},
     current_status : {PyNone, PyStr(str_title(S_active)), PyStr(str_title(S_in_liquidation)),
                       PyStr(S_registered), PyList},
     incorporation_date : {PyNone, PyStr(<<"2","0","1","2","-","0","3","-","2","1">>), PyList}]

NoCompany ==
    [company_number |-> PyNone, jurisdiction_code |-> PyNone,
     current_status |-> PyNone, incorporation_date |-> PyNone]

\* Bodies of a 200 response: not JSON, JSON that is no object, and objects
\* with the 'results' / 'total_count' / 'companies' entries in every shape.
BodyInputs ==
    {[kind |-> k, results |-> "absent", total_count |-> "absent",
      companies |-> "absent", company |-> NoCompany] : k \in {"undecodable", "non_mapping"}}
      \cup [kind : {"dict"}, results : {"absent", "None", "empty_dict", "list"},
            total_count : {"absent", "0", "1"}, companies : {"absent"}, company : {NoCompany}]
      \cup [kind : {"dict"}, results : {"dict"}, total_count : {"absent", "0", "1"},
            companies : {"absent", "empty", "no_company_key", "company_none"},
            company : {NoCompany}]
      \cup [kind : {"dict"}, results : {"dict"}, total_count : {"absent", "0", "1"},
            companies : {"ok"}, company : CompanyInputs]

NoBody ==
    [kind |-> "undecodable", results |-> "absent", total_count |-> "absent",
     companies |-> "absent", company |-> NoCompany]

\* What requests.get(...) can do: fail in transport, answer with a
\* non-success status, or answer 200 with some body.
ResponseInputs ==
    {[transport |-> tr, status_code |-> 0, body |-> NoBody] : tr \in {"ConnectionError", "Timeout"}}
      \cup {[transport |-> "ok", status_code |-> c, body |-> NoBody] : c \in {404, 429, 500}}
      \cup [transport : {"ok"}, status_code : {200}, body : BodyInputs]

QueryInputs == {PyNone, PyStr(<<>>), PyStr(S_Acme_Ltd)}

---------------------------------------------------------------------------
\* Actions of the registry client.

\* A call of search_registry(query); response is what the live source does.
SearchRegistry ==
    \E query \in QueryInputs, response \in ResponseInputs :
        /\ last' = [op |-> "search_registry", arg |-> query, response |-> response,
                    ret |-> search_registry(query, response)]
        /\ UNCHANGED <<today, USE_MOCK, SANCTIONS_LIST>>

\* A call of _normalize_status(status_str).
NormalizeStatus ==
    \E status_str \in StatusInputs :
        /\ last' = [op |-> "normalize_status", arg |-> status_str,
                    ret |-> normalize_status(status_str)]
        /\ UNCHANGED <<today, USE_MOCK, SANCTIONS_LIST>>

InitRegistry ==
    /\ today = Today0
    /\ USE_MOCK \in BOOLEAN
    /\ SANCTIONS_LIST = <<>>
    /\ last = NoCall

NextRegistry == SearchRegistry \/ NormalizeStatus

SpecRegistry == InitRegistry /\ [][NextRegistry]_vars

---------------------------------------------------------------------------
\* Properties of the registry client (checked under SpecRegistry).

\* The live source was unreachable or answered with a non-success status.
SourceUnavailable == last.response.transport # "ok" \/ last.response.status_code # 200

\* C5 (as claimed): search_registry never raises, whatever the live source
\* does (unreachable, non-success status, undecodable body, no companies,
\* unexpected field shapes); for an empty query or a transport / availability
\* failure the record is the no-match shape: match false, every other field
\* null.
C5_SearchRegistryNeverRaises ==
    last.op = "search_registry" =>
        /\ last.ret.outcome = "returned"
        /\ (~Truthy(last.arg) \/ (~USE_MOCK /\ SourceUnavailable)) =>
              /\ ~last.ret.record.match
              /\ last.ret.record.company_number = PyNone
              /\ last.ret.record.jurisdiction = PyNone
              /\ last.ret.record.status = PyNone
              /\ last.ret.record.incorporation_date = PyNone

\* s is syn with some of its letters upper-cased.
CaseVariant(s, syn) ==
    /\ Len(s) = Len(syn)
    /\ \A i \in 1..Len(syn) : s[i] = syn[i] \/ (IsLower(syn[i]) /\ s[i] = UpperChar(syn[i]))

VariantOfAny(s, syns) == \E syn \in syns : CaseVariant(s, syn)

\* C10: status normalization is total over strings and the absent value:
\* always one of active, inactive, dissolved, unknown, other, never an
\* error; absent / empty gives unknown; a case variant of {active, company
\* is active} gives active, of {inactive, in liquidation} inactive, of
\* {dissolved, converted to another form, closed} dissolved; any other
\* string gives other.
C10_StatusTotal ==
    (last.op = "normalize_status" /\ last.arg.kind \in {"None", "str"}) =>
        /\ last.ret.exc = "none"
        /\ last.ret.label \in {S_active, S_inactive, S_dissolved, S_unknown, S_other}
        /\ IF last.arg.kind = "None" \/ last.arg.val = <<>>
             THEN last.ret.label = S_unknown
           ELSE IF VariantOfAny(last.arg.val, {S_active, S_company_is_active})
             THEN last.ret.label = S_active
           ELSE IF VariantOfAny(last.arg.val, {S_inactive, S_in_liquidation})
             THEN last.ret.label = S_inactive
           ELSE IF VariantOfAny(last.arg.val, {S_dissolved, S_converted, S_closed})
             THEN last.ret.label = S_dissolved
           ELSE last.ret.label = S_other

\* "Converted To Another Form" is normalized to dissolved.
C10_Witness ==
    /\ last.op = "normalize_status"
    /\ last.arg = PyStr(str_title(S_converted))
    /\ last.arg.val # S_converted
    /\ last.ret.label = S_dissolved

---------------------------------------------------------------------------
\* The whole process: the three components share no state but the clock and
\* the two values fixed at import, so each is checked under its own
\* specification above; this is their composition.

Init ==
    /\ today = Today0
    /\ USE_MOCK \in BOOLEAN
    /\ \E file \in CsvFiles : SANCTIONS_LIST = load_sanctions_data(file)
    /\ last = NoCall

Next == NextRisk \/ NextSanctions \/ NextRegistry

Spec == Init /\ [][Next]_vars

=============================================================================
